---- MODULE Spec2Model ----
(***************************************************************************)
(* A model of coverage_analyzer.py: analyze_coverage() as a state machine.  *)
(* The file system the run reads (the source tree in traversal order, the   *)
(* test directory listing with each file's contents and readability) is     *)
(* chosen by Init; the actions are the stages of analyze_coverage in        *)
(* program order.  Paths and file contents are strings, and substring,      *)
(* suffix and pattern matching are computed on their characters.            *)
(*                                                                          *)
(* coverage_percentage and security_coverage are floats in the program.     *)
(* The model keeps them as exact rationals <<numerator, denominator>>; for  *)
(* every numerator and denominator within the bounds below the float the    *)
(* program computes gives the same comparisons with 80 and 60 and the same  *)
(* one-decimal text as the rational.                                        *)
(***************************************************************************)
EXTENDS Integers, Sequences, FiniteSets, TLC

\* ---------------------------------------------------------------- bounds
MaxPick == 3       \* special paths (excluded, security, non-swift) per tree
MaxFiller == 20    \* plain source files per tree
MaxTestFiles == 3  \* entries of the test directory
MaxFrag == 2       \* fragments per generated test-file content

\* ------------------------------------------------------- string helpers
Contains(s, sub) ==
    \E i \in 1..(Len(s) - Len(sub) + 1) : SubSeq(s, i, i + Len(sub) - 1) = sub

EndsWith(s, suffix) ==
    /\ Len(s) >= Len(suffix)
    /\ SubSeq(s, Len(s) - Len(suffix) + 1, Len(s)) = suffix

\* Path.name: the text after the last "/"
BaseName(p) ==
    LET slashes == {i \in 1..Len(p) : SubSeq(p, i, i) = "/"}
        last == IF slashes = {} THEN 0
                ELSE CHOOSE i \in slashes : \A j \in slashes : j <= i
    IN SubSeq(p, last + 1, Len(p))

\* Path.parent as a string
ParentOf(p) ==
    LET slashes == {i \in 1..Len(p) : SubSeq(p, i, i) = "/"}
        last == IF slashes = {} THEN 0
                ELSE CHOOSE i \in slashes : \A j \in slashes : j <= i
    IN IF last = 0 THEN "." ELSE SubSeq(p, 1, last - 1)

Range(seq) == {seq[i] : i \in 1..Len(seq)}

RECURSIVE Repeat(_, _)
Repeat(s, n) == IF n = 0 THEN "" ELSE s \o Repeat(s, n - 1)

\* ------------------------------------------------- program constants
source_dir == "CrookedSentry"
test_dir == "CrookedSentryTests"

SwiftSuffix == ".swift"

SkipList == <<"Preview", "Generated", ".build">>

coverage_mapping_literal == <<
    <<"FrigateEventAPIClient.swift", "FrigateEventAPIClientTests.swift">>,
    <<"SettingsStore.swift", "SettingsStoreTests.swift">>,
    <<"CameraFeedCard.swift", "CameraFeedLoadingTests.swift">>,
    <<"ImageLoader.swift", "CameraFeedLoadingTests.swift">>,
    <<"LiveFeedAPIClient.swift", "CameraFeedLoadingTests.swift">>,
    <<"NetworkSecurityDebugger.swift", "NetworkSecurityDebuggerTests.swift">>,
    <<"SecureAPIClient.swift", "SecureAPIClientTests.swift">>,
    <<"NetworkSecurityValidator.swift", "NetworkSecurityValidatorTests.swift">>,
    <<"VPNManager.swift", "VPNConnectionStateTests.swift">>,
    <<"NetworkManager.swift", "SecureAPIClientTests.swift">>,
    <<"HTTPMethod.swift", "FrigateEventAPIClientTests.swift">>,
    <<"AuthHeaders.swift", "NetworkSecurityDebuggerTests.swift">> >>

TestMarker == "@Test("

VerifiedTotal == 240

SecurityKeywords == <<"Security", "VPN", "Network", "Auth">>

ExcellentAt == 80

GoodAt == 60

\* ------------------------------------------------------ pure functions
\* Path.rglob("*.swift") / Path.glob("*.swift"): the name matches the pattern
MatchesPattern(p) == EndsWith(BaseName(p), SwiftSuffix)

\* a skip list that misses the build directory
NotSkipped_NoBuild(p) ==
    ~ \E k \in 1..(Len(SkipList) - 1) : Contains(p, SkipList[k])

\* line 18: not any(skip in str(swift_file) for skip in [...])
NotSkipped(p) == ~ \E k \in 1..Len(SkipList) : Contains(p, SkipList[k])

\* source_dir.rglob("*.swift"): every matching path below the root, in
\* traversal order; nothing when the root does not exist
Rglob(exists, listing) ==
    IF exists THEN SelectSeq(listing, MatchesPattern) ELSE <<>>

\* test_dir.glob("*.swift"): the matching direct children of the directory
Glob(exists, listing) ==
    IF exists
    THEN SelectSeq(listing,
                   LAMBDA e : ParentOf(e.path) = test_dir /\ MatchesPattern(e.path))
    ELSE <<>>

\* lines 16-19
EnumerateSources(exists, listing) == SelectSeq(Rglob(exists, listing), NotSkipped)

\* len(re.findall(r'@Test\(', content)): scan left to right, a match consumes
\* the marker and the scan resumes after it
RECURSIVE FindAllFrom(_, _)
FindAllFrom(content, i) ==
    IF i + Len(TestMarker) - 1 > Len(content) THEN 0
    ELSE IF SubSeq(content, i, i + Len(TestMarker) - 1) = TestMarker
         THEN 1 + FindAllFrom(content, i + Len(TestMarker))
         ELSE FindAllFrom(content, i + 1)

CountTests(content) == FindAllFrom(content, 1)

\* the total overwritten by the last file's count
AddTests_Overwrite(total, test_count) == test_count

\* line 59: total_tests += test_count
AddTests(total, test_count) == total + test_count

\* the keys of the mapping table, in insertion order
MappingKeys(mapping) == [i \in 1..Len(mapping) |-> mapping[i][1]]

\* (a / b) * 100 as a rational <<numerator, denominator>>, b # 0
Percentage(a, b) == <<a * 100, b>>

\* the value in tenths, truncated
FormatTenths_Truncate(r) == (r[1] * 10) \div r[2]

\* f"{x:.1f}": the value in tenths, rounded half to even
FormatTenths(r) ==
    LET q == (r[1] * 10) \div r[2]
        rem == (r[1] * 10) % r[2]
    IN IF 2 * rem > r[2] \/ (2 * rem = r[2] /\ q % 2 = 1) THEN q + 1 ELSE q

RatGE(r, k) == r[1] >= k * r[2]

\* the ratio taken by integer division
CoveragePercentage_FloorDiv(critical, total) == <<(critical \div total) * 100, 1>>

\* line 69
CoveragePercentage(critical, total) == Percentage(critical, total)

\* lines 76-78
IsSecurityFile(p) ==
    \E k \in 1..Len(SecurityKeywords) : Contains(p, SecurityKeywords[k])

SecurityFiles(files) == SelectSeq(files, IsSecurityFile)

\* the whole path looked up in the table
IsCovered_ByPath(p, mapping) == p \in Range(MappingKeys(mapping))

\* line 80: f.name in coverage_mapping
IsCovered(p, mapping) == BaseName(p) \in Range(MappingKeys(mapping))

SecurityCovered(files, mapping) ==
    SelectSeq(files, LAMBDA p : IsCovered(p, mapping))

\* line 81
SecurityCoverage(covered, files) ==
    IF Len(files) # 0 THEN Percentage(Len(covered), Len(files)) ELSE <<0, 1>>

\* the boundaries open below
Assessment_Strict(pct) ==
    IF pct[1] > ExcellentAt * pct[2] THEN "EXCELLENT"
    ELSE IF pct[1] > GoodAt * pct[2] THEN "GOOD"
    ELSE "NEEDS IMPROVEMENT"

\* line 88
Assessment(pct) ==
    IF RatGE(pct, ExcellentAt) THEN "EXCELLENT"
    ELSE IF RatGE(pct, GoodAt) THEN "GOOD"
    ELSE "NEEDS IMPROVEMENT"

\* a file object that is never closed
WithExit_Leak(open, path) == open

\* leaving the with block closes the file, on a normal exit and on an exception
WithExit(open, path) == open \ {path}

\* --------------------------------------------------------- report lines
Line(section, label, text, n, m) ==
    [section |-> section, label |-> label, text |-> text, n |-> n, m |-> m]

HeaderLines(nsrc, ntest) == <<
    Line("header", "CrookedSentry Coverage Analysis", "", 0, 0),
    Line("header", "=", "", 50, 0),
    Line("counts", "Source Files", "", nsrc, 0),
    Line("counts", "Test Files", "", ntest, 0) >>

MappingLines(mapping) ==
    <<Line("mapping", "Direct Coverage Mapping:", "", 0, 0)>>
    \o [i \in 1..Len(mapping) |->
           Line("mapping", mapping[i][1], mapping[i][2], 0, 0)]

TestFileLine(path, test_count) ==
    Line("tests", BaseName(path), "tests", test_count, 0)

\* the reference count printed before the total
TotalLines_Swapped(total) == <<
    Line("reference", "Verified Total (via grep)", "@Test annotations",
         VerifiedTotal, 0),
    Line("total", "Total Test Cases", "", total, 0) >>

TotalLines(total) == <<
    Line("total", "Total Test Cases", "", total, 0),
    Line("reference", "Verified Total (via grep)", "@Test annotations",
         VerifiedTotal, 0) >>

CoverageLines(critical, total, pct) == <<
    Line("overall", "Coverage Estimate:", "", 0, 0),
    Line("overall", "Critical Files Covered", "", critical, total),
    Line("overall", "Estimated Coverage", "%", FormatTenths(pct), 0) >>

SecurityLines(nfiles, ncovered, pct) == <<
    Line("security", "Security Coverage:", "", 0, 0),
    Line("security", "Security Files", "", nfiles, 0),
    Line("security", "Security Files Covered", "", ncovered, 0),
    Line("security", "Security Coverage", "%", FormatTenths(pct), 0) >>

AssessmentLine(pct) == Line("verdict", "Coverage Assessment", Assessment(pct), 0, 0)

\* ----------------------------------------------------------------- state
VARIABLES
    fs_source_exists,   \* the directory CrookedSentry exists
    fs_source,          \* the paths below it, in the order rglob walks them
    fs_test_exists,     \* the directory CrookedSentryTests exists
    fs_tests,           \* the paths below it, in the order glob lists them:
                        \* [path, content, opens, decodes]
    coverage_mapping,   \* the mapping table, <<source, test>> in insertion order
    pc,                 \* the stage analyze_coverage is at
    source_files, test_files, covered_files,
    total_tests,
    idx,                \* position of the for loop over test_files
    open_files,         \* paths of the file objects that are open
    critical_files, total_source, coverage_percentage,
    security_files, security_covered, security_coverage,
    output,             \* the lines printed so far
    error               \* the exception that ended the run, "" if none

fs == <<fs_source_exists, fs_source, fs_test_exists, fs_tests, coverage_mapping>>

locals == <<source_files, test_files, covered_files, total_tests, idx, open_files,
            critical_files, total_source, coverage_percentage,
            security_files, security_covered, security_coverage>>

vars == <<fs, locals, pc, output, error>>

NoValue == <<0, 0>>

\* ------------------------------------------------ the file systems tried
TestEntry(path, content, opens, decodes) ==
    [path |-> path, content |-> content, opens |-> opens, decodes |-> decodes]

SpecialPaths == <<
    "CrookedSentry/Security/SecureAPIClient.swift",
    "CrookedSentry/Network/NetworkSecurityDebugger.swift",
    "CrookedSentry/Network/NetworkSecurityValidator.swift",
    "CrookedSentry/Views/AuthView.swift",
    "CrookedSentry/Preview Content/PreviewData.swift",
    "CrookedSentry/Network/Generated/APIModels.swift",
    "CrookedSentry/.build/checkouts/Lib.swift",
    "CrookedSentry/Models/Event.swift.orig" >>

Filler(i) == source_dir \o "/Views/View" \o ToString(i) \o ".swift"

Fillers(n) == [i \in 1..n |-> Filler(i)]

Pick(S) == SelectSeq(SpecialPaths, LAMBDA p : \E i \in S : SpecialPaths[i] = p)

PickSets == {S \in SUBSET (1..Len(SpecialPaths)) : Cardinality(S) <= MaxPick}

Perms(seq) ==
    {[i \in 1..Len(seq) |-> seq[f[i]]] :
        f \in {g \in [1..Len(seq) -> 1..Len(seq)] :
                  \A i, j \in 1..Len(seq) : g[i] = g[j] => i = j}}

FourTests == "@Test f " \o Repeat("@Test(a) ", 4)

SixTests == "//@Test( " \o Repeat("@Test(b) ", 5)

TestPool == <<
    TestEntry("CrookedSentryTests/SettingsStoreTests.swift", FourTests, TRUE, TRUE),
    TestEntry("CrookedSentryTests/SecureAPIClientTests.swift", SixTests, TRUE, TRUE),
    TestEntry("CrookedSentryTests/LockedTests.swift", "@Test(", FALSE, TRUE),
    TestEntry("CrookedSentryTests/BinaryTests.swift", "@Test(", TRUE, FALSE),
    TestEntry("CrookedSentryTests/README.md", "@Test(", TRUE, TRUE),
    TestEntry("CrookedSentryTests/Helpers/MockTests.swift", "@Test(", TRUE, TRUE) >>

DefaultTests == <<TestPool[1], TestPool[2]>>

DefaultSource == Pick({1, 2, 4}) \o Fillers(2)

TestSets == {S \in SUBSET (1..Len(TestPool)) : Cardinality(S) <= MaxTestFiles}

PickTests(S) == SelectSeq(TestPool, LAMBDA e : \E i \in S : TestPool[i] = e)

Fragments == {"@Te", "st(", "@Test(", "x"}

RECURSIVE Contents(_)
Contents(n) ==
    IF n = 0 THEN {""}
    ELSE Contents(n - 1) \cup {s \o f : s \in Contents(n - 1), f \in Fragments}

\* windows of the program's table: entries i..j of it, in its order
MappingWindows ==
    {SubSeq(coverage_mapping_literal, i, j) :
        i \in 1..Len(coverage_mapping_literal),
        j \in 0..Len(coverage_mapping_literal)}

InitLocals ==
    /\ pc = "start"
    /\ source_files = <<>> /\ test_files = <<>> /\ covered_files = <<>>
    /\ total_tests = 0 /\ idx = 0 /\ open_files = {}
    /\ critical_files = 0 /\ total_source = 0
    /\ coverage_percentage = NoValue
    /\ security_files = <<>> /\ security_covered = <<>>
    /\ security_coverage = NoValue
    /\ output = <<>> /\ error = ""

\* a root directory is missing
InitMissing ==
    /\ fs_source_exists \in BOOLEAN /\ fs_test_exists \in BOOLEAN
    /\ ~ (fs_source_exists /\ fs_test_exists)
    /\ fs_source = IF fs_source_exists THEN DefaultSource ELSE <<>>
    /\ fs_tests = IF fs_test_exists THEN DefaultTests ELSE <<>>

\* source trees: some special paths and some plain files
InitTrees ==
    /\ fs_source_exists = TRUE /\ fs_test_exists = TRUE
    /\ \E S \in PickSets, n \in 0..MaxFiller : fs_source = Pick(S) \o Fillers(n)
    /\ fs_tests = DefaultTests

\* the same trees walked in every order
InitOrders ==
    /\ fs_source_exists = TRUE /\ fs_test_exists = TRUE
    /\ \E S \in PickSets : fs_source \in Perms(Pick(S))
    /\ fs_tests = DefaultTests

\* test directories, listed in every order
InitTests ==
    /\ fs_source_exists = TRUE /\ fs_test_exists = TRUE
    /\ fs_source = DefaultSource
    /\ \E S \in TestSets : fs_tests \in Perms(PickTests(S))

\* two test files with generated contents
InitContents ==
    /\ fs_source_exists = TRUE /\ fs_test_exists = TRUE
    /\ fs_source = DefaultSource
    /\ \E a, b \in Contents(MaxFrag) :
          fs_tests = <<TestEntry("CrookedSentryTests/ATests.swift", a, TRUE, TRUE),
                       TestEntry("CrookedSentryTests/BTests.swift", b, TRUE, TRUE)>>

Init ==
    /\ coverage_mapping = coverage_mapping_literal
    /\ InitLocals
    /\ (InitMissing \/ InitTrees \/ InitOrders \/ InitTests \/ InitContents)

\* the analysis as a function of the table: a window of the program's table
InitTable ==
    /\ coverage_mapping \in MappingWindows
    /\ InitLocals
    /\ \/ /\ fs_source_exists = TRUE /\ fs_test_exists = TRUE
          /\ \E S \in {{}, {1, 2, 3}}, n \in 0..MaxFiller :
                fs_source = Pick(S) \o Fillers(n)
          /\ fs_tests = DefaultTests
       \/ /\ coverage_mapping = coverage_mapping_literal
          /\ InitTests

\* --------------------------------------------------------------- actions
\* lines 12-22: enumerate the source files and the test files
Enumerate ==
    /\ pc = "start"
    /\ source_files' = EnumerateSources(fs_source_exists, fs_source)
    /\ test_files' = Glob(fs_test_exists, fs_tests)
    /\ pc' = "header"
    /\ UNCHANGED <<fs, covered_files, total_tests, idx, open_files, critical_files,
                   total_source, coverage_percentage, security_files,
                   security_covered, security_coverage, output, error>>

\* lines 24-28
PrintHeader ==
    /\ pc = "header"
    /\ output' = output \o HeaderLines(Len(source_files), Len(test_files))
    /\ pc' = "mapping"
    /\ UNCHANGED <<fs, locals, error>>

\* lines 31-54: the mapping loop, then total_tests = 0
MapCoverage ==
    /\ pc = "mapping"
    /\ output' = output \o MappingLines(coverage_mapping)
    /\ covered_files' = MappingKeys(coverage_mapping)
    /\ total_tests' = 0
    /\ idx' = 1
    /\ pc' = "loop"
    /\ UNCHANGED <<fs, source_files, test_files, open_files, critical_files,
                   total_source, coverage_percentage, security_files,
                   security_covered, security_coverage, error>>

\* line 56: open(test_file, 'r') succeeds
OpenTestFile ==
    /\ pc = "loop" /\ idx <= Len(test_files)
    /\ test_files[idx].opens
    /\ open_files' = open_files \cup {test_files[idx].path}
    /\ pc' = "read"
    /\ UNCHANGED <<fs, source_files, test_files, covered_files, total_tests, idx,
                   critical_files, total_source, coverage_percentage,
                   security_files, security_covered, security_coverage,
                   output, error>>

\* line 56: open raises (permissions, a directory); nothing catches it
OpenFails ==
    /\ pc = "loop" /\ idx <= Len(test_files)
    /\ ~ test_files[idx].opens
    /\ error' = "OSError"
    /\ pc' = "crashed"
    /\ UNCHANGED <<fs, locals, output>>

\* lines 57-60: read, count, add, print; the with block closes the file
ReadAndCount ==
    /\ pc = "read"
    /\ test_files[idx].decodes
    /\ LET test_count == CountTests(test_files[idx].content)
       IN /\ total_tests' = AddTests(total_tests, test_count)
          /\ output' = output \o <<TestFileLine(test_files[idx].path, test_count)>>
    /\ open_files' = WithExit(open_files, test_files[idx].path)
    /\ idx' = idx + 1
    /\ pc' = "loop"
    /\ UNCHANGED <<fs, source_files, test_files, covered_files, critical_files,
                   total_source, coverage_percentage, security_files,
                   security_covered, security_coverage, error>>

\* line 57: f.read() raises UnicodeDecodeError; the with block closes the file
\* and the exception leaves analyze_coverage
ReadFails ==
    /\ pc = "read"
    /\ ~ test_files[idx].decodes
    /\ open_files' = WithExit(open_files, test_files[idx].path)
    /\ error' = "UnicodeDecodeError"
    /\ pc' = "crashed"
    /\ UNCHANGED <<fs, source_files, test_files, covered_files, total_tests, idx,
                   critical_files, total_source, coverage_percentage,
                   security_files, security_covered, security_coverage, output>>

\* lines 62-63, after the loop
PrintTotals ==
    /\ pc = "loop" /\ idx > Len(test_files)
    /\ output' = output \o TotalLines(total_tests)
    /\ pc' = "coverage"
    /\ UNCHANGED <<fs, locals, error>>

\* lines 66-73
ComputeCoverage ==
    /\ pc = "coverage"
    /\ Len(source_files) # 0
    /\ critical_files' = Len(coverage_mapping)
    /\ total_source' = Len(source_files)
    /\ coverage_percentage' = CoveragePercentage(critical_files', total_source')
    /\ output' = output \o CoverageLines(critical_files', total_source',
                                         coverage_percentage')
    /\ pc' = "security"
    /\ UNCHANGED <<fs, source_files, test_files, covered_files, total_tests, idx,
                   open_files, security_files, security_covered,
                   security_coverage, error>>

\* line 69 with total_source = 0: the division raises; nothing catches it
DivisionByZero ==
    /\ pc = "coverage"
    /\ Len(source_files) = 0
    /\ critical_files' = Len(coverage_mapping)
    /\ total_source' = Len(source_files)
    /\ error' = "ZeroDivisionError"
    /\ pc' = "crashed"
    /\ UNCHANGED <<fs, source_files, test_files, covered_files, total_tests, idx,
                   open_files, coverage_percentage, security_files,
                   security_covered, security_coverage, output>>

\* lines 76-86
ComputeSecurity ==
    /\ pc = "security"
    /\ security_files' = SecurityFiles(source_files)
    /\ security_covered' = SecurityCovered(security_files', coverage_mapping)
    /\ security_coverage' = SecurityCoverage(security_covered', security_files')
    /\ output' = output \o SecurityLines(Len(security_files'),
                                         Len(security_covered'),
                                         security_coverage')
    /\ pc' = "assess"
    /\ UNCHANGED <<fs, source_files, test_files, covered_files, total_tests, idx,
                   open_files, critical_files, total_source, coverage_percentage,
                   error>>

\* line 88
Assess ==
    /\ pc = "assess"
    /\ output' = output \o <<AssessmentLine(coverage_percentage)>>
    /\ pc' = "done"
    /\ UNCHANGED <<fs, locals, error>>

Next ==
    \/ Enumerate
    \/ PrintHeader
    \/ MapCoverage
    \/ OpenTestFile
    \/ OpenFails
    \/ ReadAndCount
    \/ ReadFails
    \/ PrintTotals
    \/ ComputeCoverage
    \/ DivisionByZero
    \/ ComputeSecurity
    \/ Assess

Spec == Init /\ [][Next]_vars

SpecTable == InitTable /\ [][Next]_vars

\* ------------------------------------------------------------ properties
\* what the properties below read, stated from the file system alone
EligiblePaths ==
    {p \in Range(fs_source) :
        /\ fs_source_exists
        /\ EndsWith(p, ".swift")
        /\ ~ Contains(p, "Preview")
        /\ ~ Contains(p, "Generated")
        /\ ~ Contains(p, ".build")}

CategoryPaths ==
    {p \in EligiblePaths :
        \/ Contains(p, "Security") \/ Contains(p, "VPN")
        \/ Contains(p, "Network") \/ Contains(p, "Auth")}

TableKeys == {coverage_mapping[i][1] : i \in 1..Len(coverage_mapping)}

CoverageComputed == pc \in {"security", "assess", "done"}

Printed(line) == \E i \in 1..Len(output) : output[i] = line

\* C1: once the overall coverage is computed it is exactly K/N*100, N the
\* number of eligible source files and K the number of keys of the mapping
\* table: 100 when K = N, 0 when K = 0.
C1_OverallCoverage ==
    CoverageComputed =>
        LET N == Cardinality(EligiblePaths)
            K == Cardinality(TableKeys)
        IN /\ coverage_percentage[2] # 0
           /\ coverage_percentage[1] * N = K * 100 * coverage_percentage[2]
           /\ (K = N => coverage_percentage[1] = 100 * coverage_percentage[2])
           /\ (K = 0 => coverage_percentage[1] = 0)

C1_Witness ==
    /\ pc = "done"
    /\ Cardinality(TableKeys) = 12
    /\ Cardinality(EligiblePaths) = 12
    /\ Printed(Line("overall", "Estimated Coverage", "%", 1000, 0))

\* C2: when the source root or the test root does not exist, enumerating it
\* yields nothing and the run ends, if it ends early, only with a
\* directory-not-found error.
C2_MissingRootHandled ==
    (~ fs_source_exists \/ ~ fs_test_exists) =>
        /\ (~ fs_source_exists /\ pc # "start" => source_files = <<>>)
        /\ (~ fs_test_exists /\ pc # "start" => test_files = <<>>)
        /\ (pc = "crashed" => error = "DirectoryNotFound")

\* C3: 12 eligible files, 3 of them security files and all 3 keys of a
\* 5-entry table, two test files with 4 and 6 markers: the report shows
\* 12, 5, 41.7%, NEEDS IMPROVEMENT, 3, 3, 100.0%, 10.
C3_Scenario ==
    /\ Cardinality(EligiblePaths) = 12
    /\ Cardinality(CategoryPaths) = 3
    /\ \A p \in CategoryPaths : Contains(p, "Security") /\ BaseName(p) \in TableKeys
    /\ Len(coverage_mapping) = 5 /\ Cardinality(TableKeys) = 5
    /\ fs_test_exists /\ Len(fs_tests) = 2
    /\ CountTests(fs_tests[1].content) = 4
    /\ CountTests(fs_tests[2].content) = 6

C4_UnreadableFileSkipped ==
    fs_source_exists /\ fs_test_exists =>
        error \notin {"OSError", "UnicodeDecodeError"}

\* C5: the verdict is EXCELLENT when p >= 80, GOOD when 60 <= p < 80 and
\* NEEDS IMPROVEMENT when p < 60, p the overall percentage K/N*100.
C5_Verdict ==
    pc = "done" =>
        LET N == Cardinality(EligiblePaths)
            K == Cardinality(TableKeys)
            verdict == output[Len(output)]
        IN /\ verdict.section = "verdict"
           /\ (K * 100 >= 80 * N => verdict.text = "EXCELLENT")
           /\ (K * 100 >= 60 * N /\ K * 100 < 80 * N => verdict.text = "GOOD")
           /\ (K * 100 < 60 * N => verdict.text = "NEEDS IMPROVEMENT")

C5_Witness ==
    /\ pc = "done"
    /\ Cardinality(TableKeys) * 100 = 60 * Cardinality(EligiblePaths)
    /\ output[Len(output)].text = "GOOD"
    /\ security_coverage[1] = 0

\* C6: security coverage is covered/total*100 over the enumerated files whose
\* path contains a category keyword, covered counting those whose base name
\* is a key of the table; it is 0 when there is no such file, and no error.
C6_SecurityCoverage ==
    pc \in {"assess", "done"} =>
        LET total == Cardinality(CategoryPaths)
            covered == Cardinality({p \in CategoryPaths : BaseName(p) \in TableKeys})
        IN /\ error = ""
           /\ Len(security_files) = total
           /\ Len(security_covered) = covered
           /\ security_coverage[2] # 0
           /\ security_coverage[1] * total = covered * 100 * security_coverage[2]
           /\ (total = 0 => security_coverage[1] = 0)
           /\ Printed(Line("security", "Security Coverage", "%",
                           FormatTenths(security_coverage), 0))

C6_Witness ==
    /\ pc = "done"
    /\ EligiblePaths # {}
    /\ CategoryPaths = {}
    /\ Printed(Line("security", "Security Coverage", "%", 0, 0))

\* C7 as stated: for two file contents A and B the count of A+B is
\* count(A) + count(B), and the reported total is the sum of the counts.
StraddlesJunction(a, b) ==
    \E k \in 1..(Len(TestMarker) - 1) :
        /\ Len(a) >= k /\ Len(b) >= Len(TestMarker) - k
        /\ SubSeq(a, Len(a) - k + 1, Len(a)) \o SubSeq(b, 1, Len(TestMarker) - k)
               = TestMarker

TwoFilesCounted == pc = "done" /\ Len(test_files) = 2

C7_Additive ==
    TwoFilesCounted =>
        LET A == test_files[1].content
            B == test_files[2].content
        IN /\ total_tests = CountTests(A) + CountTests(B)
           /\ CountTests(A \o B) = CountTests(A) + CountTests(B)

\* C7 amended: the reported total is the sum of the two counts, and the count
\* of A+B is that sum, plus one exactly when a marker spans the junction.
C7_AdditiveUpToJunction ==
    TwoFilesCounted =>
        LET A == test_files[1].content
            B == test_files[2].content
        IN /\ total_tests = CountTests(A) + CountTests(B)
           /\ CountTests(A \o B) =
                 total_tests + (IF StraddlesJunction(A, B) THEN 1 ELSE 0)

C7_Witness ==
    /\ TwoFilesCounted
    /\ total_tests = 2
    /\ CountTests(test_files[1].content) = 1
    /\ CountTests(test_files[1].content \o test_files[2].content) = 3

\* C8: the sections are printed in the order header, file counts, mapping
\* list (one line per entry, in table order), per-test-file counts, total,
\* reference count, overall block, security block, verdict, each once.
SectionOrder == <<"header", "counts", "mapping", "tests", "total", "reference",
                  "overall", "security", "verdict">>

Rank(section) == CHOOSE r \in 1..Len(SectionOrder) : SectionOrder[r] = section

SectionLines(section) == SelectSeq(output, LAMBDA l : l.section = section)

C8_SectionOrder ==
    /\ \A i \in 1..(Len(output) - 1) :
          Rank(output[i].section) <= Rank(output[i + 1].section)
    /\ pc = "done" =>
          /\ Len(SectionLines("header")) = 2
          /\ Len(SectionLines("counts")) = 2
          /\ Len(SectionLines("mapping")) = 1 + Len(coverage_mapping)
          /\ \A i \in 1..Len(coverage_mapping) :
                /\ SectionLines("mapping")[i + 1].label = coverage_mapping[i][1]
                /\ SectionLines("mapping")[i + 1].text = coverage_mapping[i][2]
          /\ Len(SectionLines("tests")) = Len(test_files)
          /\ \A i \in 1..Len(test_files) :
                SectionLines("tests")[i].label = BaseName(test_files[i].path)
          /\ Len(SectionLines("total")) = 1
          /\ Len(SectionLines("reference")) = 1
          /\ Len(SectionLines("overall")) = 3
          /\ Len(SectionLines("security")) = 4
          /\ Len(SectionLines("verdict")) = 1

C8_Witness ==
    /\ pc = "done"
    /\ Len(fs_tests) = 3
    /\ Len(test_files) = 2
    /\ Len(output) = 2 + 2 + (1 + Len(coverage_mapping)) + 2 + 1 + 1 + 3 + 4 + 1

\* C9: the enumerated source files are exactly the .swift paths of the tree
\* that contain none of Preview, Generated, .build, whatever the order the
\* tree is walked in (read right after the enumeration and at the end of
\* the run; nothing assigns source_files in between).
C9_Enumeration ==
    pc \in {"header", "done", "crashed"} =>
        /\ Range(source_files) = EligiblePaths
        /\ Len(source_files) = Cardinality(EligiblePaths)

C9_Witness ==
    /\ pc = "done"
    /\ fs_source = <<SpecialPaths[7], SpecialPaths[4], SpecialPaths[1]>>
    /\ source_files = <<SpecialPaths[4], SpecialPaths[1]>>

\* C10: at most one test file is open at any time, and none is open between
\* two files, after the loop, or when the run has ended, normally or not.
C10_OneFileOpen ==
    /\ Cardinality(open_files) <= 1
    /\ (pc = "read" => open_files = {test_files[idx].path})
    /\ (pc # "read" => open_files = {})

C10_Witness ==
    /\ pc = "crashed"
    /\ error = "UnicodeDecodeError"
    /\ idx = 2
    /\ open_files = {}

====
